---- MODULE Spec2Model ----
(***************************************************************************)
(* Model of job_hunter.py: the rate-limited retrying HttpClient, the      *)
(* JobDatabase dedup store, the scrapers and the JobHunter.run pipeline.   *)
(***************************************************************************)
EXTENDS Integers, Sequences, FiniteSets, TLC

(* ------------------------------ bounds --------------------------------- *)
\* last value of the time.time() clock, in ticks
MaxTime == 8
\* number of HttpClient.get calls issued in one behaviour
MaxCalls == 2
\* largest max_retries the constructor is given
MaxRetriesBound == 2
\* largest request_delay the constructor is given, in ticks
MaxDelay == 2

Hosts == {"api.lever.co", "api.greenhouse.io"}
Tasks == {1, 2}

\* "domain not in self.last_request_time"
NoTime == -1
\* fewer than two requests were sent to the host so far
NoGap == -1
\* an exception object without an attempt-count attribute
NoAttempts == -1

VARIABLES
    now,                \* time.time()
    request_delay,      \* HttpClient.request_delay
    max_retries,        \* HttpClient.max_retries
    last_request_time,  \* HttpClient.last_request_time: host -> timestamp
    task,               \* the coroutines running HttpClient.get
    calls,              \* number of get calls started
    lastSent,           \* history: host -> start time of the latest request
    lastGap             \* history: host -> time between the two latest requests

httpVars == <<now, request_delay, max_retries, last_request_time, task, calls,
              lastSent, lastGap>>

VARIABLES
    today,              \* datetime.now() / CURRENT_TIMESTAMP, in days
    db,                 \* the jobs table: job_id -> row
    persisted           \* history: job_ids for which a save_job call wrote a row

dbVars == <<today, db, persisted>>

VARIABLES
    runpc,              \* where JobHunter.run stands
    dry_run,            \* the dry_run argument of the run
    si,                 \* index of the scraper run is awaiting
    ei,                 \* index of the board that scraper is fetching
    scraper_all_jobs,   \* all_jobs of the scraper's scrape()
    all_jobs,           \* all_jobs of run
    qualified_jobs,     \* qualified_jobs of run
    new_jobs,           \* new_jobs of run
    results,            \* the dictionary run returns
    source,             \* what each board answers
    consoleFailed,      \* history: scrapers whose console.print raised
    prevRun,            \* history: the run before this one
    srcChanged,         \* history: a board changed its answer since the run began
    config,             \* JobHunter.config, the document _load_config returned
    scored,             \* history: the jobs score_job was called with in this run
    dbTrace             \* history: the table before and after each save_job of this run

runVars == <<runpc, dry_run, si, ei, scraper_all_jobs, all_jobs, qualified_jobs,
             new_jobs, results, source, consoleFailed, prevRun, srcChanged,
             config, scored, dbTrace>>

VARIABLES
    scoreCall,          \* a direct caller of score_job and what the call returned
    saveCall            \* history: the latest save_job call of a direct caller

engineVars == <<scoreCall, saveCall>>

vars == <<httpVars, dbVars, runVars, engineVars>>

\* what the HttpClient does not touch
nonHttpVars == <<dbVars, runVars, engineVars>>
\* what a JobDatabase call does not touch
nonDbVars == <<httpVars, runVars, engineVars>>

(* ---------------------------- HttpClient ------------------------------- *)
IdleTask == [pc |-> "idle", host |-> "", attempt |-> 0, wake |-> 0,
             nreq |-> 0, sleeps |-> <<>>,
             error |-> [type |-> "", url |-> "", attempts |-> NoAttempts]]

\* outcome of one self.client.get + raise_for_status
Outcomes == {"ok", "HTTPStatusError", "RequestError"}

Running(t) == task[t].pc \in {"gate_sleep", "inflight", "backoff"}

\* line 86: the argument of asyncio.sleep in the per-domain gate
GateSleepNone(elapsed) == 0
GateSleep(elapsed) == request_delay - elapsed

\* line 100: delay = (2 ** attempt) * self.request_delay
BackoffDelayLinear(attempt) == attempt * request_delay
BackoffDelay(attempt) == (2 ^ attempt) * request_delay

\* line 96: if attempt == self.max_retries: raise e
IsFinalAttemptEarly(attempt) == attempt + 1 >= max_retries
IsFinalAttempt(attempt) == attempt = max_retries

\* lines 90-91: stamp the host and start the request
SendRequest(t, h, tk) ==
    /\ last_request_time' = [last_request_time EXCEPT ![h] = now]
    /\ lastGap' = [lastGap EXCEPT ![h] =
                      IF lastSent[h] = NoTime THEN NoGap ELSE now - lastSent[h]]
    /\ lastSent' = [lastSent EXCEPT ![h] = now]
    /\ task' = [task EXCEPT ![t] = [tk EXCEPT !.pc = "inflight", !.wake = 0,
                                              !.nreq = tk.nreq + 1]]

\* lines 80-91: entry of get up to its first await
GetStart(t, h) ==
    /\ ~Running(t)
    /\ calls < MaxCalls
    /\ calls' = calls + 1
    /\ LET tk == [IdleTask EXCEPT !.host = h]
           known == last_request_time[h] # NoTime
           elapsed == now - last_request_time[h]
       IN IF known /\ elapsed < request_delay
          THEN /\ task' = [task EXCEPT ![t] =
                             [tk EXCEPT !.pc = "gate_sleep",
                                        !.wake = now + GateSleep(elapsed)]]
               /\ UNCHANGED <<last_request_time, lastSent, lastGap>>
          ELSE SendRequest(t, h, tk)
    /\ UNCHANGED <<now, request_delay, max_retries>>
    /\ UNCHANGED nonHttpVars

\* line 86 returns; lines 88-91 start attempt 0
GateWake(t) ==
    /\ task[t].pc = "gate_sleep"
    /\ now >= task[t].wake
    /\ SendRequest(t, task[t].host, task[t])
    /\ UNCHANGED <<now, request_delay, max_retries, calls>>
    /\ UNCHANGED nonHttpVars

\* lines 91-101: the request completes
Response(t, out) ==
    /\ task[t].pc = "inflight"
    /\ LET tk == task[t]
       IN task' = [task EXCEPT ![t] =
            IF out = "ok"
            THEN [tk EXCEPT !.pc = "returned", !.wake = 0]
            ELSE IF IsFinalAttempt(tk.attempt)
            THEN [tk EXCEPT !.pc = "raised", !.wake = 0,
                            !.error = [type |-> out, url |-> tk.host,
                                       attempts |-> NoAttempts]]
            ELSE [tk EXCEPT !.pc = "backoff",
                            !.wake = now + BackoffDelay(tk.attempt),
                            !.sleeps = Append(tk.sleeps, BackoffDelay(tk.attempt))]]
    /\ UNCHANGED <<now, request_delay, max_retries, last_request_time, calls,
                   lastSent, lastGap>>
    /\ UNCHANGED nonHttpVars

\* line 101 returns; the for loop starts the next attempt
BackoffWake(t) ==
    /\ task[t].pc = "backoff"
    /\ now >= task[t].wake
    /\ SendRequest(t, task[t].host, [task[t] EXCEPT !.attempt = task[t].attempt + 1])
    /\ UNCHANGED <<now, request_delay, max_retries, calls>>
    /\ UNCHANGED nonHttpVars

\* the clock advances
Tick ==
    /\ now < MaxTime
    /\ now' = now + 1
    /\ UNCHANGED <<request_delay, max_retries, last_request_time, task, calls,
                   lastSent, lastGap>>
    /\ UNCHANGED nonHttpVars

\* get calls issued one after another, each awaited before the next starts:
\* one caller
SeqTasks == {1}

HttpSeqNext ==
    \/ \E t \in SeqTasks, h \in Hosts : GetStart(t, h)
    \/ \E t \in SeqTasks : GateWake(t)
    \/ \E t \in SeqTasks, out \in Outcomes : Response(t, out)
    \/ \E t \in SeqTasks : BackoffWake(t)
    \/ Tick

\* get calls running concurrently on one HttpClient
HttpConcNext ==
    \/ \E t \in Tasks, h \in Hosts : GetStart(t, h)
    \/ \E t \in Tasks : GateWake(t)
    \/ \E t \in Tasks, out \in Outcomes : Response(t, out)
    \/ \E t \in Tasks : BackoffWake(t)
    \/ Tick

(* ---------------------------- JobDatabase ------------------------------ *)
\* last value of the day clock
MaxDay == 1

Ids == {<<"1">>, <<"2">>}

\* lines 145-149: SELECT 1 FROM jobs WHERE job_id = ? ... fetchone() is None
IsNewJobUnflagged(d, job) == job.job_id \notin DOMAIN d \/ ~d[job.job_id].is_new
IsNewJob(d, job) == job.job_id \notin DOMAIN d

\* lines 155-164: INSERT OR REPLACE: a row with this job_id is deleted and a
\* row with the columns of job is inserted; first_seen and last_seen take
\* their CURRENT_TIMESTAMP defaults.  Of the columns copied from the job the
\* row keeps location and score here.
InsertOrReplace(d, job, is_new, ts) ==
    [i \in DOMAIN d \cup {job.job_id} |->
        IF i = job.job_id
        THEN [score |-> job.score, is_new |-> is_new, location |-> job.location,
              first_seen |-> ts, last_seen |-> ts]
        ELSE d[i]]

\* lines 166-169: UPDATE jobs SET last_seen = CURRENT_TIMESTAMP, score = ?
UpdateSeenKeepScore(d, job, ts) ==
    [i \in DOMAIN d |->
        IF i = job.job_id THEN [d[i] EXCEPT !.last_seen = ts] ELSE d[i]]
UpdateSeen(d, job, ts) ==
    [i \in DOMAIN d |->
        IF i = job.job_id
        THEN [d[i] EXCEPT !.last_seen = ts, !.score = job.score]
        ELSE d[i]]

\* lines 151-169
SaveJob(d, job, is_new, ts) ==
    IF is_new THEN InsertOrReplace(d, job, is_new, ts)
    ELSE UpdateSeen(d, job, ts)

\* lines 171-175
GetNewJobsCount(d) == Cardinality({i \in DOMAIN d : d[i].is_new})

\* lines 177-180: UPDATE jobs SET is_new = 0 WHERE is_new = 1
MarkAllAsSeenPurge(d) == [i \in {j \in DOMAIN d : ~d[j].is_new} |-> d[i]]
MarkAllAsSeen(d) ==
    [i \in DOMAIN d |-> IF d[i].is_new THEN [d[i] EXCEPT !.is_new = FALSE] ELSE d[i]]

\* the rows a save_job call writes
Persists(d, job, is_new) == is_new

\* the jobs handed to save_job by a direct caller of the store
DbJobs == [job_id : Ids, score : {40, 70}, location : {<<>>, <<"N", "Y", "C">>}]

\* no save_job call was made yet
NoSave == <<>>

DbSaveJob(job, is_new) ==
    /\ db' = SaveJob(db, job, is_new, today)
    /\ persisted' = IF Persists(db, job, is_new)
                    THEN persisted \cup {job.job_id} ELSE persisted
    /\ saveCall' = <<job, is_new>>
    /\ UNCHANGED today
    /\ UNCHANGED <<httpVars, runVars, scoreCall>>

DbMarkAllAsSeen ==
    /\ db' = MarkAllAsSeen(db)
    /\ UNCHANGED <<today, persisted>>
    /\ UNCHANGED nonDbVars

\* no run is under way
Between == runpc \in {"idle", "done", "crashed", "config_error"}

\* a day passes, between two runs
DayTick ==
    /\ Between
    /\ today < MaxDay
    /\ today' = today + 1
    /\ UNCHANGED <<db, persisted>>
    /\ UNCHANGED nonDbVars

DbNext ==
    \/ \E job \in DbJobs, is_new \in BOOLEAN : DbSaveJob(job, is_new)
    \/ DbMarkAllAsSeen
    \/ DayTick

(* ------------------------------ strings -------------------------------- *)
\* Python str values are sequences of one-character strings
UpperChars == <<"A", "B", "C", "D", "E", "F", "G", "H", "I", "J", "K", "L", "M",
                "N", "O", "P", "Q", "R", "S", "T", "U", "V", "W", "X", "Y", "Z">>
LowerChars == <<"a", "b", "c", "d", "e", "f", "g", "h", "i", "j", "k", "l", "m",
                "n", "o", "p", "q", "r", "s", "t", "u", "v", "w", "x", "y", "z">>

LowerChar(c) ==
    IF \E i \in 1..26 : UpperChars[i] = c
    THEN LowerChars[CHOOSE i \in 1..26 : UpperChars[i] = c]
    ELSE c

\* str.lower()
Lower(s) == [i \in 1..Len(s) |-> LowerChar(s[i])]

\* "kw in text"
Contains(text, kw) ==
    \E i \in 0..(Len(text) - Len(kw)) : SubSeq(text, i + 1, i + Len(kw)) = kw

Max(a, b) == IF a >= b THEN a ELSE b
Min(a, b) == IF a <= b THEN a ELSE b

(* --------------------------- configuration ----------------------------- *)
\* the document _load_config returns: the weights of the comments of
\* score_job, one keyword per list, the API boards solana, avax and block
\* enabled and every other board switched off.  absent lists the keys the
\* document lacks, by their paths; the value kept here under an absent key is
\* never read.
Config ==
    [scoring |-> [title_match_weight |-> 35, keyword_match_weight |-> 30,
                  location_match_weight |-> 15, recency_weight |-> 20,
                  min_score |-> 40, max_results |-> 20],
     filters |-> [title_keywords |-> << <<"d", "e", "v">> >>,
                  preferred_keywords |-> << <<"r", "u", "s", "t">> >>,
                  exclude_keywords |-> << <<"i", "n", "t", "e", "r", "n">> >>,
                  required_keywords |-> <<>>,
                  experience_levels |-> <<>>,
                  location |-> [remote_only |-> TRUE,
                                preferred_locations |-> <<>>,
                                excluded_locations |-> << <<"u", "s", "a">> >>]],
     sites |-> [solana_jobs |-> TRUE, avax_jobs |-> TRUE, bnb_chain_jobs |-> FALSE,
                block_jobs |-> TRUE, a16z_jobs |-> FALSE, animoca_jobs |-> FALSE,
                dragonfly_jobs |-> FALSE, pantera_jobs |-> FALSE,
                web3_career |-> FALSE, crypto_careers |-> FALSE,
                cryptojobslist |-> FALSE],
     profile |-> [name |-> <<"m", "e">>],
     absent |-> {}]

(* --------------------------------- Job --------------------------------- *)
\* posted_date is None
NoDate == -999

\* hashlib.md5(content.encode()).hexdigest(): a digest that differs for
\* different contents
Md5(content) == <<"#">> \o content

\* lines 45-49: Job.__post_init__
JobIdRaw(title, company, url, job_id) == job_id
JobId(title, company, url, job_id) ==
    IF job_id = <<>> THEN Md5(title \o <<"_">> \o company \o <<"_">> \o url)
    ELSE job_id

\* lines 29-49: the dataclass constructor
MakeJob(title, company, location, url, description, posted_date, job_type, job_source, job_id) ==
    [title |-> title, company |-> company, location |-> location, url |-> url,
     description |-> description, posted_date |-> posted_date,
     experience_level |-> <<>>, job_type |-> job_type, source |-> job_source,
     score |-> 0, job_id |-> JobId(title, company, url, job_id)]

(* ---------------------------- ScoringEngine ---------------------------- *)
\* number of entries of the keyword list kws found in the lowercased text
Matches(kws, text) ==
    Cardinality({i \in 1..Len(kws) : Contains(Lower(text), Lower(kws[i]))})

\* A sub-score that is a fraction is kept as numerator and denominator:
\* the title sub-score is TitleNum / TitleDen.
TitleDen(cfg) == Max(1, Len(cfg.filters.title_keywords))
\* lines 214-230
TitleNum(cfg, title) ==
    IF title = <<>> THEN 0
    ELSE IF Len(cfg.filters.title_keywords) = 0 THEN 50
    ELSE Matches(cfg.filters.title_keywords, title) * 100

KeywordDen(cfg) == Max(1, Len(cfg.filters.preferred_keywords))
\* lines 232-249
KeywordNum(cfg, description) ==
    IF description = <<>> THEN 0
    ELSE IF Len(cfg.filters.preferred_keywords) = 0 THEN 50
    ELSE Min(100 * KeywordDen(cfg),
             Matches(cfg.filters.preferred_keywords, description) * 100)

RemoteKeywords == << <<"r", "e", "m", "o", "t", "e">>,
                     <<"w", "o", "r", "l", "d", "w", "i", "d", "e">>,
                     <<"a", "n", "y", "w", "h", "e", "r", "e">>,
                     <<"d", "i", "s", "t", "r", "i", "b", "u", "t", "e", "d">> >>

\* lines 251-277
ScoreLocationMatchRemoteFirst(cfg, location) ==
    LET loc == cfg.filters.location IN
    IF location = <<>> THEN 50
    ELSE IF loc.remote_only
         THEN IF \E i \in 1..Len(RemoteKeywords) :
                    Contains(Lower(location), RemoteKeywords[i])
              THEN 100
              ELSE IF Matches(loc.excluded_locations, location) > 0 THEN 0 ELSE 10
    ELSE IF Matches(loc.excluded_locations, location) > 0 THEN 0
    ELSE IF Matches(loc.preferred_locations, location) > 0 THEN 100
    ELSE 50
ScoreLocationMatch(cfg, location) ==
    LET loc == cfg.filters.location IN
    IF location = <<>> THEN 50
    ELSE IF Matches(loc.excluded_locations, location) > 0 THEN 0
    ELSE IF loc.remote_only
         THEN IF \E i \in 1..Len(RemoteKeywords) :
                    Contains(Lower(location), RemoteKeywords[i])
              THEN 100 ELSE 10
    ELSE IF Matches(loc.preferred_locations, location) > 0 THEN 100
    ELSE 50

\* lines 279-295; day is datetime.now()
ScoreRecencyStrict(posted_date, day) ==
    IF posted_date = NoDate THEN 50
    ELSE LET days_old == day - posted_date IN
         IF days_old < 1 THEN 100
         ELSE IF days_old < 7 THEN 80
         ELSE IF days_old < 30 THEN 60
         ELSE IF days_old < 90 THEN 30
         ELSE 10
ScoreRecency(posted_date, day) ==
    IF posted_date = NoDate THEN 50
    ELSE LET days_old == day - posted_date IN
         IF days_old <= 1 THEN 100
         ELSE IF days_old <= 7 THEN 80
         ELSE IF days_old <= 30 THEN 60
         ELSE IF days_old <= 90 THEN 30
         ELSE 10

\* Scores are kept exactly, as multiples of 1 / ScoreDen(cfg): the float s of
\* the program is the integer s * ScoreDen(cfg) here.
ScoreDen(cfg) == 100 * TitleDen(cfg) * KeywordDen(cfg)

\* lines 192-212
ScoreJobUnclamped(cfg, job, day) ==
    LET w == cfg.scoring
        dt == TitleDen(cfg)
        dk == KeywordDen(cfg)
    IN TitleNum(cfg, job.title) * w.title_match_weight * dk
       + KeywordNum(cfg, job.description) * w.keyword_match_weight * dt
       + ScoreLocationMatch(cfg, job.location) * w.location_match_weight * dt * dk
       + ScoreRecency(job.posted_date, day) * w.recency_weight * dt * dk
ScoreJob(cfg, job, day) ==
    LET w == cfg.scoring
        dt == TitleDen(cfg)
        dk == KeywordDen(cfg)
        total_score ==
            TitleNum(cfg, job.title) * w.title_match_weight * dk
            + KeywordNum(cfg, job.description) * w.keyword_match_weight * dt
            + ScoreLocationMatch(cfg, job.location) * w.location_match_weight * dt * dk
            + ScoreRecency(job.posted_date, day) * w.recency_weight * dt * dk
    IN Min(100 * ScoreDen(cfg), Max(0, total_score))

\* line 1000: job.score < self.config['scoring']['min_score']
BelowMinScore(cfg, score) == score < cfg.scoring.min_score * ScoreDen(cfg)

\* lines 297-316
ShouldExcludeJobNoRequired(cfg, job) ==
    LET combined_text == Lower(job.title \o <<" ">> \o job.description)
        f == cfg.filters
    IN \E i \in 1..Len(f.exclude_keywords) :
           Contains(combined_text, Lower(f.exclude_keywords[i]))
ShouldExcludeJob(cfg, job) ==
    LET combined_text == Lower(job.title \o <<" ">> \o job.description)
        f == cfg.filters
    IN \/ \E i \in 1..Len(f.exclude_keywords) :
              Contains(combined_text, Lower(f.exclude_keywords[i]))
       \/ \E i \in 1..Len(f.required_keywords) :
              ~Contains(combined_text, Lower(f.required_keywords[i]))
       \/ /\ f.experience_levels # <<>>
          /\ job.experience_level # <<>>
          /\ \A i \in 1..Len(f.experience_levels) :
                Lower(f.experience_levels[i]) # Lower(job.experience_level)

\* cfg[...][key] where the document lacks the key
Absent(cfg, key) == key \in cfg.absent
KeyErrorIf(cond) == IF cond THEN "KeyError" ELSE ""

\* lines 192-277: the subscripts score_job and its helpers evaluate, in order
ScoreJobExc(cfg, job) ==
    IF \/ job.title # <<>> /\ Absent(cfg, "filters.title_keywords")
       \/ Absent(cfg, "scoring.title_match_weight")
       \/ job.description # <<>> /\ Absent(cfg, "filters.preferred_keywords")
       \/ Absent(cfg, "scoring.keyword_match_weight")
       \/ job.location # <<>> /\ Absent(cfg, "filters.location")
       \/ Absent(cfg, "scoring.location_match_weight")
       \/ Absent(cfg, "scoring.recency_weight")
    THEN "KeyError" ELSE ""

(* ----------------------------- JSON values ----------------------------- *)
\* A value of a decoded payload: t is its Python type ("missing": the key is
\* absent), v its text, n its number; k tells what a string used as a date
\* looks like: "abs" matches one of the strptime patterns and names day n,
\* "rel" reads "n days ago", "bad" matches nothing.
Str(s) == [t |-> "str", v |-> s, n |-> 0, k |-> ""]
DateStr(k, n) == [t |-> "str", v |-> <<"d">>, n |-> n, k |-> k]
Num(n) == [t |-> "int", v |-> <<>>, n |-> n, k |-> ""]
Null == [t |-> "null", v |-> <<>>, n |-> 0, k |-> ""]
Missing == [t |-> "missing", v |-> <<>>, n |-> 0, k |-> ""]

\* "not x"
Falsy(x) ==
    \/ x.t \in {"null", "missing"}
    \/ x.t = "str" /\ x.v = <<>>
    \/ x.t = "int" /\ x.n = 0

Digits == <<"0", "1", "2", "3", "4", "5", "6", "7", "8", "9">>
\* str(x) of a string or of a one-digit number
PyStr(x) == IF x.t = "int" THEN <<Digits[x.n + 1]>> ELSE x.v

\* the first exception of a sequence of evaluations ("" where none raises)
FirstExc(excs) ==
    IF \E i \in 1..Len(excs) : excs[i] # ""
    THEN excs[CHOOSE i \in 1..Len(excs) :
                 excs[i] # "" /\ \A j \in 1..(i - 1) : excs[j] = ""]
    ELSE ""

\* posting[key]
KeyExc(x) == IF x.t = "missing" THEN "KeyError" ELSE ""

(* ----------------------------- BaseScraper ----------------------------- *)
\* lines 344-373: date_str.strip() raises on a value that is no string
ParseDateLenient(x, day) ==
    IF Falsy(x) \/ x.t # "str" THEN [exc |-> "", val |-> NoDate]
    ELSE IF x.k = "abs" THEN [exc |-> "", val |-> x.n]
    ELSE IF x.k = "rel" THEN [exc |-> "", val |-> day - x.n]
    ELSE [exc |-> "", val |-> NoDate]
ParseDate(x, day) ==
    IF Falsy(x) THEN [exc |-> "", val |-> NoDate]
    ELSE IF x.t # "str" THEN [exc |-> "AttributeError", val |-> NoDate]
    ELSE IF x.k = "abs" THEN [exc |-> "", val |-> x.n]
    ELSE IF x.k = "rel" THEN [exc |-> "", val |-> day - x.n]
    ELSE [exc |-> "", val |-> NoDate]

Remote == <<"R", "e", "m", "o", "t", "e">>

\* the boards of the four scrapers, in the order of their dictionaries
\* (lines 381-385, 441-445, 502-505, 561-589), each with its flag in sites
Endpoints ==
    << [scraper |-> "lever", name |-> "solana", site |-> "solana_jobs"],
       [scraper |-> "lever", name |-> "avax", site |-> "avax_jobs"],
       [scraper |-> "lever", name |-> "bnb_chain", site |-> "bnb_chain_jobs"],
       [scraper |-> "greenhouse", name |-> "block", site |-> "block_jobs"],
       [scraper |-> "greenhouse", name |-> "a16z", site |-> "a16z_jobs"],
       [scraper |-> "greenhouse", name |-> "animoca", site |-> "animoca_jobs"],
       [scraper |-> "ashby", name |-> "dragonfly", site |-> "dragonfly_jobs"],
       [scraper |-> "ashby", name |-> "pantera", site |-> "pantera_jobs"],
       [scraper |-> "html", name |-> "web3_career", site |-> "web3_career"],
       [scraper |-> "html", name |-> "crypto_careers", site |-> "crypto_careers"],
       [scraper |-> "html", name |-> "cryptojobslist", site |-> "cryptojobslist"] >>

\* company_name.upper()
UpperName(name) ==
    CASE name = "block" -> <<"B", "L", "O", "C", "K">>
      [] name = "a16z" -> <<"A", "1", "6", "Z">>
      [] name = "animoca" -> <<"A", "N", "I", "M", "O", "C", "A">>
      [] name = "dragonfly" -> <<"D", "R", "A", "G", "O", "N", "F", "L", "Y">>
      [] OTHER -> <<"P", "A", "N", "T", "E", "R", "A">>

NoJob == MakeJob(<<>>, <<>>, <<>>, <<>>, <<>>, NoDate, <<>>, "", <<"-">>)

(* ----------------------------- LeverScraper ---------------------------- *)
\* p["categories"][key]
CategoryExc(p, x) ==
    IF p.categories.t = "missing" THEN "KeyError"
    ELSE IF p.categories.t = "null" THEN "TypeError"
    ELSE KeyExc(x)

\* lines 415-425: Job(...) for one posting of the Lever payload
LeverBuild(name, p, day) ==
    LET c == p.categories
        date == ParseDate(p.createdAt, day)
        exc == FirstExc(<< KeyExc(p.text),
                           CategoryExc(p, c.commitment),
                           CategoryExc(p, c.location),
                           KeyExc(p.hostedUrl),
                           KeyExc(p.description),
                           KeyExc(p.createdAt),
                           date.exc,
                           KeyExc(p.id) >>)
    IN IF exc # "" THEN [exc |-> exc, job |-> NoJob]
       ELSE [exc |-> "",
             job |-> MakeJob(p.text.v, c.commitment.v,
                             IF Falsy(c.location) THEN Remote ELSE c.location.v,
                             p.hostedUrl.v, p.description.v, date.val,
                             c.commitment.v, "lever_" \o name, p.id.v)]

(* --------------------------- GreenhouseScraper ------------------------- *)
\* line 475: posting['location']['name'] if posting.get('location') else 'Remote'
GreenhouseLocationExc(p) ==
    IF Falsy(p.location) THEN ""
    ELSE IF p.location.t # "obj" THEN "TypeError"
    ELSE KeyExc(p.location.name)

\* lines 475-486
GreenhouseBuild(name, p, day) ==
    LET date == ParseDate(p.updated_at, day)
        exc == FirstExc(<< GreenhouseLocationExc(p),
                           KeyExc(p.title),
                           KeyExc(p.absolute_url),
                           date.exc,
                           KeyExc(p.id) >>)
    IN IF exc # "" THEN [exc |-> exc, job |-> NoJob]
       ELSE [exc |-> "",
             job |-> MakeJob(p.title.v, UpperName(name),
                             IF Falsy(p.location) THEN Remote ELSE p.location.name.v,
                             p.absolute_url.v, p.content.v, date.val,
                             <<>>, "greenhouse_" \o name, PyStr(p.id))]

(* ------------------------------ AshbyScraper --------------------------- *)
AshbyUrl == <<"h", "t", "t", "p", "s", ":", "/", "/", "j", "o", "b", "s", ".",
              "a", "s", "h", "b", "y", "h", "q", ".", "c", "o", "m", "/">>

\* lines 535-545
AshbyBuild(name, p, day) ==
    LET date == ParseDate(p.publishedDate, day)
        exc == FirstExc(<< KeyExc(p.title), KeyExc(p.id), date.exc >>)
    IN IF exc # "" THEN [exc |-> exc, job |-> NoJob]
       ELSE [exc |-> "",
             job |-> MakeJob(p.title.v, UpperName(name),
                             IF p.locationName.t = "missing" THEN Remote
                             ELSE p.locationName.v,
                             AshbyUrl \o p.id.v, p.descriptionHtml.v, date.val,
                             p.employmentType.v, "ashby_" \o name, p.id.v)]

\* the Job(...) expression of the scraper that owns the board
Build(e, p, day) ==
    CASE e.scraper = "lever" -> LeverBuild(e.name, p, day)
      [] e.scraper = "greenhouse" -> GreenhouseBuild(e.name, p, day)
      [] e.scraper = "ashby" -> AshbyBuild(e.name, p, day)

\* lines 429, 490, 549: except (KeyError, TypeError): continue
SkipsAny(exc) == exc # ""
Skips(exc) == exc \in {"KeyError", "TypeError"}

\* lines 405-433, 465-494, 525-553: one board is fetched and parsed.  resp is
\* what the board answers: kind "error" (get raises), "badjson" (the top level
\* does not decode to the expected shape) or "json" with its postings.
ScrapeCompany(e, resp, day) ==
    IF resp.kind # "json" THEN [raised |-> TRUE, jobs |-> <<>>]
    ELSE LET built == [i \in 1..Len(resp.items) |-> Build(e, resp.items[i], day)]
             kept == SelectSeq(built, LAMBDA b : b.exc = "")
         IN IF \E i \in 1..Len(built) : built[i].exc # "" /\ ~Skips(built[i].exc)
            THEN [raised |-> TRUE, jobs |-> <<>>]
            ELSE [raised |-> FALSE, jobs |-> [i \in 1..Len(kept) |-> kept[i].job]]

(* ------------------------------ the boards ----------------------------- *)
Cat(commitment, location) ==
    [t |-> "obj", commitment |-> Str(commitment), location |-> Str(location)]
NullCat == [t |-> "null", commitment |-> Missing, location |-> Missing]

\* postings a Lever board may return
LeverDev ==
    [text |-> Str(<<"D", "e", "v">>),
     categories |-> Cat(<<"f", "t">>, Remote),
     hostedUrl |-> Str(<<"u", "1">>),
     description |-> Str(<<"R", "u", "s", "t">>),
     createdAt |-> DateStr("abs", -1),
     id |-> Str(<<"1">>)]
\* the same id with another location
LeverDevOnsite == [LeverDev EXCEPT !.categories = Cat(<<"f", "t">>, <<"N", "Y", "C">>)]
\* no date, title without keyword
LeverRust ==
    [LeverDev EXCEPT !.text = Str(<<"Q", "A">>), !.createdAt = Null,
                     !.id = Str(<<"2">>)]
\* below min_score
LeverQa ==
    [LeverRust EXCEPT !.description = Str(<<>>), !.id = Str(<<"3">>)]
\* matches an exclude keyword
LeverIntern ==
    [LeverDev EXCEPT !.text = Str(<<"D", "e", "v", " ", "I", "n", "t", "e", "r", "n">>),
                     !.id = Str(<<"4">>)]
\* malformed: the title key is absent
LeverNoText == [LeverDev EXCEPT !.text = Missing, !.id = Str(<<"5">>)]
\* malformed: categories is null
LeverNullCategories == [LeverDev EXCEPT !.categories = NullCat, !.id = Str(<<"6">>)]
\* malformed: createdAt is a number (epoch milliseconds), not a string
LeverIntDate == [LeverDev EXCEPT !.createdAt = Num(7), !.id = Str(<<"7">>)]

\* a posting a Greenhouse board may return; its numeric id reads like LeverDev's
GreenhouseDev ==
    [title |-> Str(<<"D", "e", "v">>),
     location |-> [t |-> "obj", name |-> Str(Remote)],
     absolute_url |-> Str(<<"u", "2">>),
     content |-> Str(<<"r", "u", "s", "t">>),
     updated_at |-> DateStr("rel", 1),
     id |-> Num(1)]

FetchError == [kind |-> "error", items |-> <<>>]
BadJson == [kind |-> "badjson", items |-> <<>>]
Json(items) == [kind |-> "json", items |-> items]

\* what a Lever board answers, malformed postings included
LeverResponses ==
    {FetchError, BadJson, Json(<<>>), Json(<<LeverDev>>),
     Json(<<LeverDevOnsite, LeverRust>>),
     Json(<<LeverNoText, LeverDev>>),
     Json(<<LeverDev, LeverNullCategories, LeverQa>>),
     Json(<<LeverDev, LeverIntDate>>)}
GreenhouseResponses == {FetchError, BadJson, Json(<<>>), Json(<<GreenhouseDev>>)}

\* the boards the configuration enables
EnabledEndpoints(cfg, s) ==
    SelectSeq(Endpoints, LAMBDA e : e.scraper = s /\ cfg.sites[e.site])
ScraperKinds == <<"lever", "greenhouse", "ashby", "html">>
\* lines 934-956: _init_scrapers
Scrapers(cfg) == SelectSeq(ScraperKinds, LAMBDA s : EnabledEndpoints(cfg, s) # <<>>)
EnabledNames(cfg) == {Endpoints[i].name : i \in {j \in 1..Len(Endpoints) :
                                                  cfg.sites[Endpoints[j].site]}}

\* every answer of every enabled board
ScrapeSources ==
    [solana : LeverResponses, avax : LeverResponses, block : GreenhouseResponses]

\* the answers of the boards over several runs: well-formed postings, with
\* one id twice in a payload, on two boards and under two scrapers
RunSources ==
    {[solana |-> Json(<<LeverDev>>), avax |-> FetchError, block |-> FetchError],
     [solana |-> Json(<<LeverDev, LeverDevOnsite>>), avax |-> Json(<<>>),
      block |-> Json(<<GreenhouseDev>>)],
     [solana |-> Json(<<LeverQa, LeverRust>>), avax |-> Json(<<LeverDevOnsite>>),
      block |-> FetchError],
     [solana |-> Json(<<LeverIntern, LeverDev>>), avax |-> Json(<<LeverRust>>),
      block |-> Json(<<>>)],
     [solana |-> Json(<<>>), avax |-> Json(<<>>), block |-> Json(<<>>)]}

(* ------------------------------ JobHunter ------------------------------ *)
NoResults == [total_scraped |-> 0, qualified_jobs |-> 0, new_jobs |-> 0]

\* lines 186-190 and 939-953: the sections __init__ subscripts
ConstructExc(cfg) ==
    KeyErrorIf(\E k \in {"scoring", "filters", "profile", "sites"} : Absent(cfg, k))

\* lines 1052 and 904-912: main constructs the JobHunter; an exception of
\* __init__ ends the process
Construct ==
    /\ runpc = "main"
    /\ runpc' = IF ConstructExc(config) # "" THEN "no_hunter" ELSE "idle"
    /\ UNCHANGED <<dry_run, si, ei, scraper_all_jobs, all_jobs, qualified_jobs,
                   new_jobs, results, source, consoleFailed, prevRun, srcChanged,
                   config, scored, dbTrace>>
    /\ UNCHANGED <<httpVars, engineVars, dbVars>>

\* lines 962-967: the header a verbose run prints
VerboseExc(cfg, verbose) ==
    KeyErrorIf(verbose /\ \E k \in {"profile.name", "scoring.min_score",
                                    "scoring.max_results"} : Absent(cfg, k))

\* lines 958-970
RunStart(dr, verbose) ==
    /\ Between
    /\ runpc' = IF VerboseExc(config, verbose) # "" THEN "config_error"
                ELSE IF Scrapers(config) = <<>> THEN "scraped" ELSE "scraping"
    /\ dry_run' = dr
    /\ si' = 1 /\ ei' = 1
    /\ scraper_all_jobs' = <<>>
    /\ all_jobs' = <<>>
    /\ qualified_jobs' = <<>>
    /\ new_jobs' = <<>>
    /\ results' = NoResults
    /\ consoleFailed' = {}
    /\ prevRun' = [completed |-> runpc = "done" /\ ~srcChanged, dry_run |-> dry_run]
    /\ srcChanged' = FALSE
    /\ scored' = <<>>
    /\ dbTrace' = <<>>
    /\ UNCHANGED <<source, config>>
    /\ UNCHANGED <<httpVars, engineVars, dbVars>>

\* lines 395-401: what leaves scrape() as an exception: a board's failure is
\* caught and printed; only the print of the handler itself can raise
ScrapeRaisesUncaught(r, console_ok) == r.raised \/ ~console_ok
ScrapeRaises(r, console_ok) == ~console_ok

\* lines 974-982 and 387-403 (447-463, 507-523): run awaits the scraper, the
\* scraper fetches its next enabled board
ScrapeEndpoint(console_ok) ==
    /\ runpc = "scraping"
    /\ LET s == Scrapers(config)[si]
           eps == EnabledEndpoints(config, s)
           e == eps[ei]
           r == ScrapeCompany(e, source[e.name], today)
           jobs == scraper_all_jobs \o (IF r.raised THEN <<>> ELSE r.jobs)
           raises == ScrapeRaises(r, console_ok)
           returns == ~raises /\ ei = Len(eps)
       IN /\ IF raises \/ returns
             THEN /\ si' = si + 1
                  /\ ei' = 1
                  /\ scraper_all_jobs' = <<>>
                  /\ all_jobs' = IF raises THEN all_jobs ELSE all_jobs \o jobs
                  /\ runpc' = IF si = Len(Scrapers(config)) THEN "scraped"
                              ELSE "scraping"
             ELSE /\ ei' = ei + 1
                  /\ scraper_all_jobs' = jobs
                  /\ UNCHANGED <<si, all_jobs, runpc>>
          /\ consoleFailed' = IF console_ok THEN consoleFailed
                              ELSE consoleFailed \cup {s}
    /\ UNCHANGED <<dry_run, qualified_jobs, new_jobs, results, source, prevRun,
                   srcChanged, config, scored, dbTrace>>
    /\ UNCHANGED <<httpVars, engineVars, dbVars>>

\* lines 993-1000 for one job: what the body of the loop raises
LoopExc(cfg, job) ==
    IF ShouldExcludeJob(cfg, job) THEN ""
    ELSE IF ScoreJobExc(cfg, job) # "" THEN ScoreJobExc(cfg, job)
    ELSE KeyErrorIf(Absent(cfg, "scoring.min_score"))

\* the index of the job at which the loop of lines 991-1007 raises, 0 when it
\* runs to its end
FirstRaise(cfg, jobs) ==
    IF \E i \in 1..Len(jobs) : LoopExc(cfg, jobs[i]) # ""
    THEN CHOOSE i \in 1..Len(jobs) :
            /\ LoopExc(cfg, jobs[i]) # ""
            /\ \A j \in 1..(i - 1) : LoopExc(cfg, jobs[j]) = ""
    ELSE 0

\* lines 993-997: the jobs score_job is called with
ScoredJobs(cfg, jobs) == SelectSeq(jobs, LAMBDA j : ~ShouldExcludeJob(cfg, j))

\* lines 991-1003: passes the filters and the threshold
Qualifies(cfg, job, day) ==
    /\ ~ShouldExcludeJob(cfg, job)
    /\ ~BelowMinScore(cfg, ScoreJob(cfg, job, day))

\* lines 988-1003: qualified_jobs, each job with its score set
QualifiedJobs(cfg, jobs, day) ==
    LET q == SelectSeq(jobs, LAMBDA j : Qualifies(cfg, j, day))
    IN [i \in 1..Len(q) |-> [q[i] EXCEPT !.score = ScoreJob(cfg, q[i], day)]]

\* lines 1005-1007
NewJobsAll(d, q) == q
NewJobs(d, q) == SelectSeq(q, LAMBDA j : IsNewJob(d, j))

\* line 1016: is_new = job in new_jobs
InNewJobs(job, new) == \E i \in 1..Len(new) : new[i] = job

\* lines 1015-1017 save the new jobs only
RECURSIVE SaveOnlyNew(_, _, _, _)
SaveOnlyNew(d, q, new, ts) ==
    IF q = <<>> THEN d
    ELSE SaveOnlyNew(IF InNewJobs(Head(q), new) THEN SaveJob(d, Head(q), TRUE, ts)
                     ELSE d,
                     Tail(q), new, ts)
\* lines 1015-1017
RECURSIVE SaveAll(_, _, _, _)
SaveAll(d, q, new, ts) ==
    IF q = <<>> THEN d
    ELSE SaveAll(SaveJob(d, Head(q), InNewJobs(Head(q), new), ts), Tail(q), new, ts)

\* lines 1015-1017: the table as it is before the loop and after each of its
\* save_job calls, every call being a transaction of its own
RECURSIVE SaveTrace(_, _, _, _)
SaveTrace(d, q, new, ts) ==
    IF q = <<>> THEN <<d>>
    ELSE <<d>> \o SaveTrace(SaveJob(d, Head(q), InNewJobs(Head(q), new), ts),
                            Tail(q), new, ts)

\* lines 1014, 1025: "if not dry_run"
WritesAlways(dr) == TRUE
Writes(dr) == ~dr

\* lines 988-1017: score, filter, classify and save, with no await in between
ScoreAndSave ==
    /\ runpc = "scraped"
    /\ LET r == FirstRaise(config, all_jobs) IN
       IF r # 0
       THEN /\ runpc' = "config_error"
            /\ scored' = ScoredJobs(config, SubSeq(all_jobs, 1, r))
            /\ UNCHANGED <<qualified_jobs, new_jobs, db, persisted, dbTrace>>
       ELSE LET q == QualifiedJobs(config, all_jobs, today)
                new == NewJobs(db, q)
            IN /\ runpc' = "saved"
               /\ scored' = ScoredJobs(config, all_jobs)
               /\ qualified_jobs' = q
               /\ new_jobs' = new
               /\ db' = IF Writes(dry_run) THEN SaveAll(db, q, new, today) ELSE db
               /\ dbTrace' = IF Writes(dry_run) THEN SaveTrace(db, q, new, today)
                             ELSE <<>>
               /\ persisted' = IF Writes(dry_run)
                               THEN persisted \cup {new[i].job_id : i \in 1..Len(new)}
                               ELSE persisted
    /\ UNCHANGED <<dry_run, si, ei, scraper_all_jobs, all_jobs, results, source,
                   consoleFailed, prevRun, srcChanged, config>>
    /\ UNCHANGED <<httpVars, engineVars, today>>

\* line 1020
NotificationJobs == IF dry_run THEN qualified_jobs ELSE new_jobs

\* lines 664-683, 702, 728, 832: what send_notifications raises: the reports
\* subscript scoring.max_results and profile.name; printing and writing the
\* report may fail
NotifierExc(cfg, jobs, notifier_ok) ==
    IF jobs = <<>> THEN ""
    ELSE IF Absent(cfg, "scoring.max_results") \/ Absent(cfg, "profile.name")
         THEN "KeyError"
    ELSE IF ~notifier_ok THEN "Exception"
    ELSE ""

\* lines 1019-1036: the notifier is awaited; when it returns, the new flags
\* are cleared and run returns; when it raises, run ends with its exception
NotifyFinish(notifier_ok) ==
    /\ runpc = "saved"
    /\ LET exc == NotifierExc(config, NotificationJobs, notifier_ok) IN
       IF exc # ""
       THEN /\ runpc' = IF exc = "KeyError" THEN "config_error" ELSE "crashed"
            /\ UNCHANGED <<db, results>>
       ELSE /\ runpc' = "done"
            /\ db' = IF Writes(dry_run) /\ new_jobs # <<>>
                     THEN MarkAllAsSeen(db) ELSE db
            /\ results' = [total_scraped |-> Len(all_jobs),
                           qualified_jobs |-> Len(qualified_jobs),
                           new_jobs |-> Len(new_jobs)]
    /\ UNCHANGED <<dry_run, si, ei, scraper_all_jobs, all_jobs, qualified_jobs,
                   new_jobs, source, consoleFailed, prevRun, srcChanged,
                   config, scored, dbTrace>>
    /\ UNCHANGED <<httpVars, engineVars, today, persisted>>

\* between two runs a board changes what it answers
SourceChange(src) ==
    /\ Between
    /\ src # source
    /\ source' = src
    /\ srcChanged' = TRUE
    /\ UNCHANGED <<runpc, dry_run, si, ei, scraper_all_jobs, all_jobs,
                   qualified_jobs, new_jobs, results, consoleFailed, prevRun,
                   config, scored, dbTrace>>
    /\ UNCHANGED <<httpVars, engineVars, dbVars>>

(* ------------------------ calls of the ScoringEngine ------------------- *)
\* a caller of score_job: the job it passes and, once the call has returned,
\* the sub-scores the helpers returned and the score; a fraction is kept as
\* numerator and denominator
CallOf(job) ==
    [pc |-> "call", job |-> job,
     title_score |-> [num |-> 0, den |-> 1],
     keyword_score |-> [num |-> 0, den |-> 1],
     location_score |-> 0, recency_score |-> 0,
     score |-> [num |-> 0, den |-> 1]]
NoCall == [CallOf(NoJob) EXCEPT !.pc = "none"]

\* lines 192-212: one call of score_job
ScoreJobCall ==
    /\ scoreCall.pc = "call"
    /\ LET job == scoreCall.job IN
       scoreCall' =
         IF ScoreJobExc(config, job) # "" THEN [scoreCall EXCEPT !.pc = "raised"]
         ELSE [scoreCall EXCEPT
                 !.pc = "returned",
                 !.title_score = [num |-> TitleNum(config, job.title),
                                  den |-> TitleDen(config)],
                 !.keyword_score = [num |-> KeywordNum(config, job.description),
                                    den |-> KeywordDen(config)],
                 !.location_score = ScoreLocationMatch(config, job.location),
                 !.recency_score = ScoreRecency(job.posted_date, today),
                 !.score = [num |-> ScoreJob(config, job, today),
                            den |-> ScoreDen(config)]]
    /\ UNCHANGED <<httpVars, dbVars, runVars, saveCall>>

\* the weights a document may give: negative, zero, a share of 100, above 100
Weights == {-50, 0, 25, 150}

\* keyword lists and location preferences a document may give
Filters ==
    {Config.filters,
     [Config.filters EXCEPT
        !.title_keywords = <<>>, !.preferred_keywords = <<>>,
        !.location = [remote_only |-> FALSE,
                      preferred_locations |-> << <<"u", "s", "a">> >>,
                      excluded_locations |-> << <<"U", "S", "A">> >>]],
     [Config.filters EXCEPT
        !.title_keywords = << <<"d", "e", "v">>, <<"R", "u", "s", "t">> >>,
        !.preferred_keywords = << <<"r", "u", "s", "t">>, <<"g", "o">> >>,
        !.location = [remote_only |-> FALSE,
                      preferred_locations |-> << <<"n", "y", "c">> >>,
                      excluded_locations |-> <<>>]]}

ScoringConfigs ==
    {[Config EXCEPT !.scoring.title_match_weight = wt,
                    !.scoring.keyword_match_weight = wk,
                    !.scoring.location_match_weight = wl,
                    !.scoring.recency_weight = wr,
                    !.filters = f] :
        wt \in Weights, wk \in Weights, wl \in Weights, wr \in Weights, f \in Filters}

\* ages in days on both sides of every threshold of _score_recency
Ages == {0, 1, 2, 7, 8, 30, 31, 90, 91}

Titles == {<<>>, <<"D", "e", "v">>, <<"R", "u", "s", "t", " ", "D", "e", "v">>,
           <<"Q", "A">>}
Descriptions == {<<>>, <<"R", "u", "s", "t">>}
Locations == {<<>>, Remote, <<"R", "e", "m", "o", "t", "e", " ", "U", "S", "A">>,
              <<"N", "Y", "C">>}

\* the jobs score_job is called with; the calls are made on day 0
ScoreJobs ==
    {MakeJob(t, <<"c">>, l, <<"u">>, d, pd, <<>>, "lever_solana", <<"1">>) :
        t \in Titles, l \in Locations, d \in Descriptions,
        pd \in {NoDate} \cup {0 - a : a \in Ages}}

(* --------------------------- specifications ---------------------------- *)
\* boards that answer with empty lists
QuietSource == [solana |-> Json(<<>>), avax |-> Json(<<>>), block |-> Json(<<>>)]
NoPrevRun == [completed |-> FALSE, dry_run |-> FALSE]

\* a fresh HttpClient with any request_delay and max_retries
InitHttp ==
    /\ now = 0
    /\ request_delay \in 1..MaxDelay
    /\ max_retries \in 0..MaxRetriesBound
    /\ last_request_time = [h \in Hosts |-> NoTime]
    /\ task = [t \in Tasks |-> IdleTask]
    /\ calls = 0
    /\ lastSent = [h \in Hosts |-> NoTime]
    /\ lastGap = [h \in Hosts |-> NoGap]
    /\ today = 0 /\ db = <<>> /\ persisted = {}
    /\ runpc = "idle" /\ dry_run = FALSE /\ si = 1 /\ ei = 1
    /\ scraper_all_jobs = <<>> /\ all_jobs = <<>>
    /\ qualified_jobs = <<>> /\ new_jobs = <<>>
    /\ results = NoResults /\ source = QuietSource
    /\ consoleFailed = {} /\ prevRun = NoPrevRun /\ srcChanged = FALSE
    /\ config = Config /\ scored = <<>> /\ dbTrace = <<>>
    /\ scoreCall = NoCall /\ saveCall = NoSave

\* the process with the document cfg, the boards answering src, a fresh jobs
\* table (lines 117-143) and the defaults of HttpClient, at the place pc, and
\* a caller of the engine in the state call
InitAt(pc, cfg, src, call) ==
    /\ now = 0
    /\ request_delay = 2
    /\ max_retries = 2
    /\ last_request_time = [h \in Hosts |-> NoTime]
    /\ task = [t \in Tasks |-> IdleTask]
    /\ calls = 0
    /\ lastSent = [h \in Hosts |-> NoTime]
    /\ lastGap = [h \in Hosts |-> NoGap]
    /\ today = 0 /\ db = <<>> /\ persisted = {}
    /\ runpc = pc /\ dry_run = FALSE /\ si = 1 /\ ei = 1
    /\ scraper_all_jobs = <<>> /\ all_jobs = <<>>
    /\ qualified_jobs = <<>> /\ new_jobs = <<>>
    /\ results = NoResults /\ source = src
    /\ consoleFailed = {} /\ prevRun = NoPrevRun /\ srcChanged = FALSE
    /\ config = cfg /\ scored = <<>> /\ dbTrace = <<>>
    /\ scoreCall = call /\ saveCall = NoSave

\* lines 904-912: after JobHunter.__init__ with the document Config
InitWith(src) == InitAt("idle", Config, src, NoCall)

InitDb == InitWith(QuietSource)
InitScrape == \E src \in ScrapeSources : InitWith(src)
Init == \E src \in RunSources : InitWith(src)

\* a document without the key of the path k
Without(k) == [Config EXCEPT !.absent = {k}]

\* the documents main may load: complete ones with other filters and ones
\* that lack a key the program subscripts
RunConfigs ==
    {Config,
     [Config EXCEPT !.filters.required_keywords = << <<"D", "e", "v">> >>],
     [Config EXCEPT !.filters.experience_levels = << <<"s", "e", "n", "i", "o", "r">> >>],
     Without("scoring"), Without("sites"),
     Without("scoring.min_score"), Without("scoring.max_results"),
     Without("filters.title_keywords"), Without("profile.name")}

\* line 1052: main is about to construct the JobHunter
InitConfig == \E cfg \in RunConfigs, src \in RunSources : InitAt("main", cfg, src, NoCall)

\* a call of score_job with any weights
InitScoring ==
    \E cfg \in ScoringConfigs, job \in ScoreJobs : InitAt("idle", cfg, QuietSource, CallOf(job))

\* one run after another in preview mode over boards of every kind
ScrapeNext ==
    \/ RunStart(TRUE, FALSE)
    \/ \E console_ok \in BOOLEAN : ScrapeEndpoint(console_ok)
    \/ ScoreAndSave
    \/ NotifyFinish(TRUE)

\* runs of both modes, one at a time, over days and changing boards
Next ==
    \/ \E dr \in BOOLEAN, verbose \in BOOLEAN : RunStart(dr, verbose)
    \/ ScrapeEndpoint(TRUE)
    \/ ScoreAndSave
    \/ \E notifier_ok \in BOOLEAN : NotifyFinish(notifier_ok)
    \/ \E src \in RunSources : SourceChange(src)
    \/ DayTick

\* main with any document: construction, then runs of both modes
ConfigNext ==
    \/ Construct
    \/ \E dr \in BOOLEAN, verbose \in BOOLEAN : RunStart(dr, verbose)
    \/ ScrapeEndpoint(TRUE)
    \/ ScoreAndSave
    \/ \E notifier_ok \in BOOLEAN : NotifyFinish(notifier_ok)

ScoringNext == ScoreJobCall

SpecHttp == InitHttp /\ [][HttpSeqNext]_vars
SpecHttpConc == InitHttp /\ [][HttpConcNext]_vars
SpecDb == InitDb /\ [][DbNext]_vars
SpecScrape == InitScrape /\ [][ScrapeNext]_vars
Spec == Init /\ [][Next]_vars
SpecConfig == InitConfig /\ [][ConfigNext]_vars
SpecScoring == InitScoring /\ [][ScoringNext]_vars

(* ------------------------------ claims --------------------------------- *)
\* C1: when get calls are issued one after another, any two consecutive
\* requests to one host, retries included, start at least request_delay apart.
C1_RequestsSpaced ==
    \A h \in Hosts : lastGap[h] = NoGap \/ lastGap[h] >= request_delay

\* the second call went to the host of the first and was held at the gate
C1_Witness ==
    \E h \in Hosts :
        /\ calls = 2
        /\ task[1].pc = "inflight" /\ task[1].host = h /\ task[1].attempt = 0
        /\ lastGap[h] = request_delay

\* C2: concurrent get calls for one host never send two requests to that
\* host less than request_delay apart.
C2_NoRace ==
    \A h \in Hosts : ~(lastGap[h] # NoGap /\ lastGap[h] < request_delay)

\* C3: a call whose attempts all fail makes exactly max_retries + 1 requests
\* and then ends; the wait after failed attempt a is request_delay * 2^a; a
\* call that succeeded has made one request per attempt up to the successful
\* one and no more.
C3_RetryBudget ==
    \A t \in Tasks :
        LET tk == task[t] IN
        /\ tk.nreq <= max_retries + 1
        /\ tk.pc = "raised" => tk.nreq = max_retries + 1
        /\ tk.pc = "backoff" => tk.nreq <= max_retries
        /\ tk.pc \in {"inflight", "returned", "raised"} => tk.nreq = tk.attempt + 1
        /\ tk.pc \in {"returned", "raised"} => Len(tk.sleeps) = tk.nreq - 1
        /\ \A a \in 1..Len(tk.sleeps) : tk.sleeps[a] = request_delay * 2 ^ (a - 1)

\* every attempt of a call failed, with two retries or more
C3_Witness ==
    \E t \in Tasks :
        /\ task[t].pc = "raised"
        /\ max_retries >= 2
        /\ Len(task[t].sleeps) = max_retries

\* C4: get raises only after the final attempt failed, and what it raises is
\* a FetchError carrying the URL, the attempt count and the cause.
C4_FetchError ==
    \A t \in Tasks :
        task[t].pc = "raised" =>
            /\ task[t].nreq = max_retries + 1
            /\ task[t].error.type = "FetchError"
            /\ task[t].error.url = task[t].host
            /\ task[t].error.attempts = max_retries + 1

\* the concatenation of a sequence of lists
RECURSIVE Flatten(_)
Flatten(lists) == IF lists = <<>> THEN <<>> ELSE Head(lists) \o Flatten(Tail(lists))

\* the enabled boards in the order run reaches them
EnabledAll == SelectSeq(Endpoints, LAMBDA e : Config.sites[e.site])
Scraped == runpc \in {"scraped", "saved", "done", "crashed"}

\* the board fails on every call: its fetch or its parse raises
EndpointFails(e) == ScrapeCompany(e, source[e.name], today).raised
\* what the board contributes when a failing board, or a board of a failing
\* scraper, counts as one that returned nothing
IsolatedJobs(e) ==
    IF EndpointFails(e) \/ e.scraper \in consoleFailed THEN <<>>
    ELSE ScrapeCompany(e, source[e.name], today).jobs

\* C5: when a board or a whole scraper fails, run still gets through the
\* scrape and all_jobs holds the postings of every other board and scraper,
\* in order, as if the failing one had returned nothing.
C5_FailureIsolated ==
    /\ runpc # "crashed"
    /\ Scraped =>
          all_jobs = Flatten([i \in 1..Len(EnabledAll) |-> IsolatedJobs(EnabledAll[i])])
    /\ runpc = "done" => results.total_scraped = Len(all_jobs)

\* a board of the Lever scraper failed and the Greenhouse scraper raised,
\* and the posting of the other Lever board is there
C5_Witness ==
    /\ runpc = "done"
    /\ source.solana = FetchError
    /\ source.avax = Json(<<LeverDev>>)
    /\ source.block = Json(<<GreenhouseDev>>)
    /\ consoleFailed = {"greenhouse"}
    /\ Len(all_jobs) = 1

\* every required field is there and of the type the scraper expects
WellFormed(e, p) ==
    IF e.scraper = "lever"
    THEN /\ p.text.t = "str" /\ p.hostedUrl.t = "str" /\ p.description.t = "str"
         /\ p.id.t = "str"
         /\ p.categories.t = "obj"
         /\ p.categories.commitment.t = "str"
         /\ p.categories.location.t \in {"str", "null"}
         /\ p.createdAt.t \in {"str", "null"}
    ELSE /\ p.title.t = "str" /\ p.absolute_url.t = "str"
         /\ p.id.t \in {"str", "int"}
         /\ p.updated_at.t \in {"str", "null", "missing"}
         /\ p.location.t \in {"obj", "null", "missing"}

\* the postings of the well-formed items of a payload, in payload order
WellFormedJobs(e) ==
    LET items == SelectSeq(source[e.name].items, LAMBDA p : WellFormed(e, p))
    IN [i \in 1..Len(items) |-> Build(e, items[i], today).job]

\* C6: for a payload whose top level parses, a malformed item is dropped on
\* its own: the board's scrape does not raise and returns a posting for every
\* well-formed item, in payload order.
C6_MalformedDropped ==
    (Scraped /\ consoleFailed = {}) =>
        all_jobs = Flatten([i \in 1..Len(EnabledAll) |->
                              IF source[EnabledAll[i].name].kind = "json"
                              THEN WellFormedJobs(EnabledAll[i]) ELSE <<>>])

\* C7: is_new_job answers true exactly for the identities no save_job call
\* has written, and mark_all_as_seen changes no answer.
C7_IsNewIffNotPersisted ==
    /\ [](\A job \in DbJobs : IsNewJob(db, job) <=> job.job_id \notin persisted)
    /\ [][DbMarkAllAsSeen =>
            \A job \in DbJobs : IsNewJob(db', job) <=> IsNewJob(db, job)]_vars

\* one identity is stored and marked seen, the other was never written
C7_Witness ==
    /\ \E i \in DOMAIN db : ~db[i].is_new
    /\ \E i \in Ids : i \notin DOMAIN db

\* C8: a run that follows a completed run over the same boards and the same
\* store reports no new posting.
C8_SecondRunNoNew ==
    (runpc = "done" /\ prevRun.completed) => results.new_jobs = 0

\* C8 as amended: a run that follows a completed run that was not a dry run,
\* over the same boards and the same store, reports no new posting.
C8_SecondRunAfterSavingRun ==
    (runpc = "done" /\ prevRun.completed /\ ~prevRun.dry_run) => results.new_jobs = 0

\* the second of two runs over the same boards found qualified postings
C8_Witness ==
    /\ runpc = "done" /\ prevRun.completed /\ ~prevRun.dry_run
    /\ results.qualified_jobs >= 2

\* C9: no step of a dry run changes the store.
C9_DryRunReadOnly ==
    [][(dry_run /\ runpc \in {"scraping", "scraped", "saved"}) => db' = db]_vars

\* a dry run over a store with records ended with new postings to report
C9_Witness ==
    /\ runpc = "done" /\ dry_run
    /\ new_jobs # <<>>
    /\ Len(qualified_jobs) > Len(new_jobs)
    /\ DOMAIN db # {}

\* C10: after a run that is not a dry run, every qualified posting has a
\* record under its identity whose score is the posting's score of this run.
C10_QualifiedScoreStored ==
    (runpc = "done" /\ ~dry_run) =>
        \A i \in 1..Len(qualified_jobs) :
            /\ qualified_jobs[i].job_id \in DOMAIN db
            /\ db[qualified_jobs[i].job_id].score = qualified_jobs[i].score

\* the last qualified posting of the run that has the identity of posting i
LastWithId(i) ==
    CHOOSE k \in i..Len(qualified_jobs) :
        /\ qualified_jobs[k].job_id = qualified_jobs[i].job_id
        /\ \A m \in (k + 1)..Len(qualified_jobs) :
              qualified_jobs[m].job_id # qualified_jobs[i].job_id

\* C10 as amended: after a run that is not a dry run, every qualified posting
\* has a record under its identity, and the record's score is the score this
\* run computed for the last qualified posting with that identity.
C10_LastQualifiedScoreStored ==
    (runpc = "done" /\ ~dry_run) =>
        \A i \in 1..Len(qualified_jobs) :
            /\ qualified_jobs[i].job_id \in DOMAIN db
            /\ db[qualified_jobs[i].job_id].score = qualified_jobs[LastWithId(i)].score

\* a saving run ended with a new posting and a posting seen before
C10_Witness ==
    /\ runpc = "done" /\ ~dry_run
    /\ new_jobs # <<>>
    /\ \E i \in 1..Len(qualified_jobs) : ~InNewJobs(qualified_jobs[i], new_jobs)

\* the text the exclusion rules are evaluated against
C11_Text(job) == Lower(job.title \o <<" ">> \o job.description)
\* rule 1: an exclude-keyword is a substring of the text
C11_ExcludeKeyword(job) ==
    \E i \in 1..Len(config.filters.exclude_keywords) :
        Contains(C11_Text(job), Lower(config.filters.exclude_keywords[i]))
\* rule 2: some required-keyword is not a substring of the text
C11_RequiredMissing(job) ==
    \E i \in 1..Len(config.filters.required_keywords) :
        ~Contains(C11_Text(job), Lower(config.filters.required_keywords[i]))
\* rule 3: the allow-list is not empty and lacks the level the job declares
C11_LevelNotAllowed(job) ==
    /\ config.filters.experience_levels # <<>>
    /\ job.experience_level # <<>>
    /\ \A i \in 1..Len(config.filters.experience_levels) :
          Lower(config.filters.experience_levels[i]) # Lower(job.experience_level)
C11_RuleApplies(job) ==
    C11_ExcludeKeyword(job) \/ C11_RequiredMissing(job) \/ C11_LevelNotAllowed(job)

\* the identities whose row a save_job call of this run wrote
WrittenIds ==
    IF dbTrace = <<>> THEN {}
    ELSE {id \in DOMAIN dbTrace[Len(dbTrace)] :
            \E k \in 1..(Len(dbTrace) - 1) :
                id \notin DOMAIN dbTrace[k] \/ dbTrace[k + 1][id] # dbTrace[k][id]}

\* C11: score_job is called, and a job is counted as qualified, counted as
\* new, notified or written to the table, only for jobs that none of the
\* three exclusion rules applies to.
C11_ExclusionPrecedes ==
    /\ \A i \in 1..Len(scored) : ~C11_RuleApplies(scored[i])
    /\ \A i \in 1..Len(qualified_jobs) : ~C11_RuleApplies(qualified_jobs[i])
    /\ \A i \in 1..Len(new_jobs) : ~C11_RuleApplies(new_jobs[i])
    /\ \A i \in 1..Len(NotificationJobs) : ~C11_RuleApplies(NotificationJobs[i])
    /\ \A id \in WrittenIds :
          \E i \in 1..Len(qualified_jobs) :
              qualified_jobs[i].job_id = id /\ ~C11_RuleApplies(qualified_jobs[i])

\* a saving run scraped a job with an exclude-keyword and a job without a
\* required keyword, both scoring above the threshold, and saved another job
C11_Witness ==
    /\ runpc = "done" /\ ~dry_run
    /\ new_jobs # <<>> /\ WrittenIds # {}
    /\ \E i \in 1..Len(all_jobs) :
          /\ C11_ExcludeKeyword(all_jobs[i])
          /\ ~BelowMinScore(config, ScoreJob(config, all_jobs[i], today))
    /\ \E i \in 1..Len(all_jobs) :
          /\ C11_RequiredMissing(all_jobs[i]) /\ ~C11_ExcludeKeyword(all_jobs[i])
          /\ ~BelowMinScore(config, ScoreJob(config, all_jobs[i], today))

\* C12: whatever the four weights are, score_job returns, and what it returns
\* lies between 0 and 100.
C12_ScoreInRange ==
    /\ scoreCall.pc # "raised"
    /\ scoreCall.pc = "returned" =>
          /\ 0 <= scoreCall.score.num
          /\ scoreCall.score.num <= 100 * scoreCall.score.den

\* weights above 100, below 0 and equal to 0, and a sum cut down to 100
C12_Witness ==
    /\ scoreCall.pc = "returned"
    /\ config.scoring.title_match_weight = 150
    /\ config.scoring.keyword_match_weight = -50
    /\ config.scoring.location_match_weight = 0
    /\ scoreCall.title_score.num > 0 /\ scoreCall.keyword_score.num > 0
    /\ scoreCall.score.num = 100 * scoreCall.score.den

\* the number of title keywords found in the title, case ignored
C13_Found(title) ==
    Cardinality({i \in 1..Len(config.filters.title_keywords) :
                    Contains(Lower(title), Lower(config.filters.title_keywords[i]))})

\* C13: the title sub-score is 100 times the fraction of the title keywords
\* found in the title, and 50 when no title keyword is configured, for every
\* title, the empty one included.
C13_TitleFraction ==
    scoreCall.pc = "returned" =>
        LET n == Len(config.filters.title_keywords)
            ts == scoreCall.title_score
        IN IF n = 0 THEN ts.num = 50 * ts.den
           ELSE ts.num * n = 100 * C13_Found(scoreCall.job.title) * ts.den

\* C14: a location that is not empty and contains an excluded location, case
\* ignored, has the location sub-score 0.
C14_LocationVeto ==
    (/\ scoreCall.pc = "returned"
     /\ scoreCall.job.location # <<>>
     /\ \E i \in 1..Len(config.filters.location.excluded_locations) :
           Contains(Lower(scoreCall.job.location),
                    Lower(config.filters.location.excluded_locations[i])))
    => scoreCall.location_score = 0

\* a location with a remote word and an excluded location under remote_only
C14_Witness ==
    /\ scoreCall.pc = "returned"
    /\ config.filters.location.remote_only
    /\ Contains(Lower(scoreCall.job.location), RemoteKeywords[1])
    /\ Contains(Lower(scoreCall.job.location),
                Lower(config.filters.location.excluded_locations[1]))
    /\ scoreCall.location_score = 0

\* the recency sub-score of the claim, by age in whole days
C15_Recency(job) ==
    IF job.posted_date = NoDate THEN 50
    ELSE LET age == today - job.posted_date IN
         CASE age <= 1 -> 100
           [] age > 1 /\ age <= 7 -> 80
           [] age > 7 /\ age <= 30 -> 60
           [] age > 30 /\ age <= 90 -> 30
           [] age > 90 -> 10

\* C15: the score is the sum of sub-score times weight / 100 over the four
\* sub-scores, cut to [0, 100], with the recency sub-score 100, 80, 60, 30 or
\* 10 for an age of at most 1, 7, 30, 90 days or more and 50 without a date.
C15_WeightedSum ==
    scoreCall.pc = "returned" =>
        LET w == config.scoring
            t == scoreCall.title_score
            k == scoreCall.keyword_score
            den == 100 * t.den * k.den
            sum == t.num * w.title_match_weight * k.den
                   + k.num * w.keyword_match_weight * t.den
                   + scoreCall.location_score * w.location_match_weight * t.den * k.den
                   + scoreCall.recency_score * w.recency_weight * t.den * k.den
            cut == IF sum < 0 THEN 0 ELSE IF sum > 100 * den THEN 100 * den ELSE sum
        IN /\ scoreCall.recency_score = C15_Recency(scoreCall.job)
           /\ scoreCall.score.num * den = cut * scoreCall.score.den

\* sub-scores 100, 0, 100 and 80 under four weights of 25 give 70
C15_Witness ==
    /\ scoreCall.pc = "returned"
    /\ \A wn \in {"title_match_weight", "keyword_match_weight",
                  "location_match_weight", "recency_weight"} : config.scoring[wn] = 25
    /\ scoreCall.title_score.num = 100 * scoreCall.title_score.den
    /\ scoreCall.keyword_score.num = 0
    /\ scoreCall.location_score = 100
    /\ scoreCall.recency_score = 80
    /\ scoreCall.score.num = 70 * scoreCall.score.den

\* C16: two jobs of different sources never have the same identity, so the
\* table never takes one for the other.
C16_IdentityHasSource ==
    \A i, j \in 1..Len(all_jobs) :
        all_jobs[i].source # all_jobs[j].source =>
            all_jobs[i].job_id # all_jobs[j].job_id

\* a scrape request of the current run was made
Fetched == si > 1 \/ ei > 1

\* C17: with a document that lacks a key the program subscripts, the process
\* fails before any scrape request: no request is made at all.
C17_ConfigErrorBeforeFetch == config.absent # {} => ~Fetched

\* C18: a save_job call leaves every record that was there in place, with its
\* first-seen time and every column but last-seen and score unchanged.
C18_RecordKept ==
    \A k \in 1..(Len(dbTrace) - 1) :
        \A id \in DOMAIN dbTrace[k] :
            /\ id \in DOMAIN dbTrace[k + 1]
            /\ dbTrace[k + 1][id].first_seen = dbTrace[k][id].first_seen
            /\ dbTrace[k + 1][id].location = dbTrace[k][id].location
            /\ dbTrace[k + 1][id].is_new = dbTrace[k][id].is_new

\* C19: after save_job(job, is_new), for either value of is_new, the table
\* has a record under job's identity whose score is job.score.
C19_SaveJobUpserts ==
    saveCall # NoSave =>
        /\ saveCall[1].job_id \in DOMAIN db
        /\ db[saveCall[1].job_id].score = saveCall[1].score

\* C20: when a run that is not a dry run completes, no record is flagged new.
C20_NoNewFlagAfterRun ==
    (runpc = "done" /\ ~dry_run) => GetNewJobsCount(db) = 0

\* the table as it was when the run began: a dry run writes nothing, a saving
\* run recorded it before its first save_job call
StoreAtStart == IF dbTrace # <<>> THEN dbTrace[1] ELSE db

\* C21: the jobs a run classifies as new have pairwise distinct identities,
\* and the new count it reports is at most the number of distinct identities
\* of the qualified jobs that had no record when the run began.
C21_NewJobsDistinct ==
    runpc = "done" =>
        /\ \A i, j \in 1..Len(new_jobs) :
              i # j => new_jobs[i].job_id # new_jobs[j].job_id
        /\ results.new_jobs <=
              Cardinality({qualified_jobs[i].job_id : i \in
                             {k \in 1..Len(qualified_jobs) :
                                 qualified_jobs[k].job_id \notin DOMAIN StoreAtStart}})

====
